---- MODULE Spec2Model ----
(***************************************************************************)
(* The credential store of app.py: users.json read by load_users, written  *)
(* by save_users, mutated by register_user and by the admin panel's        *)
(* delete button, and read by login and by the admin panel's user list.    *)
(* Callers are Streamlit sessions (threads of one process) or the threads  *)
(* of test_persistence.py; a caller's steps are the file-system calls of   *)
(* the code, and callers interleave between any two of them.               *)
(***************************************************************************)
EXTENDS Naturals, FiniteSets, Sequences, TLC

\* ------------------------------------------------------------- bounds
NumProcs == 2
MaxCalls == 4
MaxSaves == 3

Procs == 1..NumProcs

\* ------------------------------------------------------------- inputs
Usernames == {"admin", "alice", "bob"}
Passwords == {"123", "aa11"}

\* ------------------------------------------------------------- values
NoUsers == [n \in {} |-> ""]

\* hashlib.sha256(password.encode()).hexdigest(), tabulated on Passwords.
hash_password(password) ==
    CASE password = "123" ->
           "a665a45920422f9d417e4867efdc4fb8a04a1f3fff1fa07e998e86f7f7a27ae3"
      [] password = "aa11" ->
           "a9e6f36035dbb98ca558ab151fd95e7f082d44f045f8eac36ace83374e96d333"
      [] OTHER -> "e3b0c44298fc1c149afbf4c8996fb92427ae41e4649b934ca495991b7852b855"

\* default_users of load_users.
default_users == [n \in {"admin"} |-> hash_password("123")]

\* The states of USERS_FILE on disk.
Absent == [kind |-> "absent", users |-> NoUsers]
Truncated == [kind |-> "truncated", users |-> NoUsers]
Doc(users) == [kind |-> "doc", users |-> users]

\* os.path.exists(USERS_FILE)
NeverExists(f) == FALSE

path_exists(f) == f.kind # "absent"

\* open(USERS_FILE, 'w'): creates the file or truncates it to zero bytes.
open_w(f) == Truncated

\* json.dump(users, f) and the close that flushes it: the whole document.
json_dump(users) == Doc(users)

\* users[username] = h
SetItem(users, username, h) ==
    [n \in DOMAIN users \cup {username} |-> IF n = username THEN h ELSE users[n]]

\* del users[user]
DelItem(users, user) == [n \in DOMAIN users \ {user} |-> users[n]]

\* `username in users` of register_user.
NeverTaken(users, username) == FALSE

username_taken(users, username) == username \in DOMAIN users

\* The value register_user stores for a new username.
plain_entry(password) == password

new_entry(password) == hash_password(password)

\* The condition of login.
LoginNameOnly(users, login_input, password) == login_input \in DOMAIN users

login_matches(users, login_input, password) ==
    /\ login_input \in DOMAIN users
    /\ users[login_input] = hash_password(password)

\* The admin panel offers the delete button for every listed user but admin.
can_delete(users, user) == user \in DOMAIN users /\ user # "admin"

NoOp == [kind |-> "none", name |-> "", pw |-> ""]

VARIABLES
    file,        \* USERS_FILE on disk
    pc,          \* pc[p]: where caller p is in its operation
    op,          \* op[p]: the operation p runs and its arguments
    users,       \* users[p]: p's local `users` dict
    snap,        \* history: the users load_users returned to p
    result,      \* result[p]: what p's operation ended with
    calls,       \* number of operations started so far
    startFile,   \* history: the file when p's operation was called
    wrote,       \* history: p's operation has opened the file for writing
    seen,        \* history: what p's read of the file observed
    lastDoc,     \* history: the last complete document the file held
    registered,  \* history: username -> password of each register that succeeded
    removeUsed,  \* history: a remove operation has been called
    rfile,       \* RESULTS_FILE on disk
    rpc,         \* rpc[p]: where caller p is in save_result
    rec,         \* rec[p]: the `result` record p's save_result builds
    all_results, \* all_results[p]: p's local `all_results` list
    saves,       \* number of save_result calls so far
    rlast        \* history: the records of the last complete results file

\* The variables of the results log; the credential store never touches them.
rvars == <<rfile, rpc, rec, all_results, saves, rlast>>

\* The variables of the credential store.
cvars == <<file, pc, op, users, snap, result, calls, startFile, wrote, seen,
           lastDoc, registered, removeUsed>>

vars == <<cvars, rvars>>

\* The states of RESULTS_FILE on disk: recs is the JSON list it holds.
RAbsent == [kind |-> "absent", recs |-> <<>>]
RTruncated == [kind |-> "truncated", recs |-> <<>>]
RDoc(recs) == [kind |-> "doc", recs |-> recs]

TypeOK ==
    /\ file.kind \in {"absent", "truncated", "doc"}
    /\ pc \in [Procs -> {"idle", "exists", "seed_open", "seed_write", "read",
                         "body", "save_open", "save_write", "done"}]
    /\ calls \in 0..MaxCalls

Init ==
    /\ file \in {Absent, Doc(default_users)}
    /\ pc = [p \in Procs |-> "idle"]
    /\ op = [p \in Procs |-> NoOp]
    /\ users = [p \in Procs |-> NoUsers]
    /\ snap = [p \in Procs |-> NoUsers]
    /\ result = [p \in Procs |-> "none"]
    /\ calls = 0
    /\ startFile = [p \in Procs |-> Absent]
    /\ wrote = [p \in Procs |-> FALSE]
    /\ seen = [p \in Procs |-> "none"]
    /\ lastDoc = file
    /\ registered = NoUsers
    /\ removeUsed = FALSE
    /\ rfile = RAbsent
    /\ rpc = [p \in Procs |-> "idle"]
    /\ rec = [p \in Procs |-> 0]
    /\ all_results = [p \in Procs |-> <<>>]
    /\ saves = 0
    /\ rlast = <<>>

\* The arguments an operation of each kind takes.
Ops ==
    {[kind |-> "register", name |-> n, pw |-> w] : n \in Usernames, w \in Passwords}
    \cup {[kind |-> "login", name |-> n, pw |-> w] : n \in Usernames, w \in Passwords}
    \cup {[kind |-> "remove", name |-> n, pw |-> ""] : n \in Usernames}
    \cup {[kind |-> "list", name |-> "", pw |-> ""]}

\* A caller enters register_user, login's button branch, or admin_panel.
Call(p, o) ==
    /\ pc[p] = "idle"
    /\ UNCHANGED rvars
    /\ calls < MaxCalls
    /\ calls' = calls + 1
    /\ pc' = [pc EXCEPT ![p] = "exists"]
    /\ op' = [op EXCEPT ![p] = o]
    /\ startFile' = [startFile EXCEPT ![p] = file]
    /\ removeUsed' = (removeUsed \/ o.kind = "remove")
    /\ UNCHANGED <<file, users, snap, result, wrote, seen, lastDoc, registered>>

\* load_users: if not os.path.exists(USERS_FILE)
ExistsWaitsForOthers(p) ==
    /\ pc[p] = "exists"
    /\ UNCHANGED rvars
    /\ \A q \in Procs \ {p} : pc[q] \in {"idle", "done"}
    /\ pc' = [pc EXCEPT ![p] = IF path_exists(file) THEN "read" ELSE "seed_open"]
    /\ users' = [users EXCEPT ![p] = IF path_exists(file) THEN @ ELSE default_users]
    /\ snap' = [snap EXCEPT ![p] = IF path_exists(file) THEN @ ELSE default_users]
    /\ UNCHANGED <<file, op, result, calls, startFile, wrote, seen, lastDoc,
                   registered, removeUsed>>

Exists(p) ==
    /\ pc[p] = "exists"
    /\ UNCHANGED rvars
    /\ IF path_exists(file)
       THEN /\ pc' = [pc EXCEPT ![p] = "read"]
            /\ UNCHANGED <<users, snap>>
       ELSE /\ pc' = [pc EXCEPT ![p] = "seed_open"]
            /\ users' = [users EXCEPT ![p] = default_users]
            /\ snap' = [snap EXCEPT ![p] = default_users]
    /\ UNCHANGED <<file, op, result, calls, startFile, wrote, seen, lastDoc,
                   registered, removeUsed>>

\* load_users -> save_users(default_users): open(USERS_FILE, 'w')
SeedOpen(p) ==
    /\ pc[p] = "seed_open"
    /\ UNCHANGED rvars
    /\ file' = open_w(file)
    /\ pc' = [pc EXCEPT ![p] = "seed_write"]
    /\ wrote' = [wrote EXCEPT ![p] = TRUE]
    /\ UNCHANGED <<op, users, snap, result, calls, startFile, seen, lastDoc,
                   registered, removeUsed>>

\* load_users -> save_users(default_users): json.dump, close; return default_users
SeedWrite(p) ==
    /\ pc[p] = "seed_write"
    /\ UNCHANGED rvars
    /\ file' = json_dump(users[p])
    /\ lastDoc' = file'
    /\ pc' = [pc EXCEPT ![p] = "body"]
    /\ UNCHANGED <<op, users, snap, result, calls, startFile, wrote, seen,
                   registered, removeUsed>>

\* load_users: with open(USERS_FILE, 'r') as f: return json.load(f)
\* json.load raises on a file that holds no complete document.
Read(p) ==
    /\ pc[p] = "read"
    /\ UNCHANGED rvars
    /\ seen' = [seen EXCEPT ![p] = file.kind]
    /\ IF file.kind = "doc"
       THEN /\ users' = [users EXCEPT ![p] = file.users]
            /\ snap' = [snap EXCEPT ![p] = file.users]
            /\ pc' = [pc EXCEPT ![p] = "body"]
            /\ result' = result
       ELSE /\ UNCHANGED <<users, snap>>
            /\ pc' = [pc EXCEPT ![p] = "done"]
            /\ result' = [result EXCEPT ![p] = "Raised"]
    /\ UNCHANGED <<file, op, calls, startFile, wrote, lastDoc, registered,
                   removeUsed>>

\* register_user: if username in users: return False, "Логин занят";
\* users[username] = hash_password(password)
RegisterCheck(p) ==
    /\ pc[p] = "body"
    /\ UNCHANGED rvars
    /\ op[p].kind = "register"
    /\ IF username_taken(users[p], op[p].name)
       THEN /\ pc' = [pc EXCEPT ![p] = "done"]
            /\ result' = [result EXCEPT ![p] = "AlreadyExists"]
            /\ users' = users
       ELSE /\ pc' = [pc EXCEPT ![p] = "save_open"]
            /\ users' = [users EXCEPT
                           ![p] = SetItem(users[p], op[p].name, new_entry(op[p].pw))]
            /\ result' = result
    /\ UNCHANGED <<file, op, snap, calls, startFile, wrote, seen, lastDoc,
                   registered, removeUsed>>

\* login: hashed = hash_password(password); the if/else on the match.
LoginCheck(p) ==
    /\ pc[p] = "body"
    /\ UNCHANGED rvars
    /\ op[p].kind = "login"
    /\ pc' = [pc EXCEPT ![p] = "done"]
    /\ result' = [result EXCEPT
          ![p] = IF login_matches(users[p], op[p].name, op[p].pw)
                 THEN "True" ELSE "False"]
    /\ UNCHANGED <<file, op, users, snap, calls, startFile, wrote, seen, lastDoc,
                   registered, removeUsed>>

\* admin_panel: the user list is shown and no delete button is pressed; the
\* usernames listed are DOMAIN users[p].
ListUsers(p) ==
    /\ pc[p] = "body"
    /\ UNCHANGED rvars
    /\ op[p].kind = "list"
    /\ pc' = [pc EXCEPT ![p] = "done"]
    /\ result' = [result EXCEPT ![p] = "Listed"]
    /\ UNCHANGED <<file, op, users, snap, calls, startFile, wrote, seen, lastDoc,
                   registered, removeUsed>>

\* admin_panel: the delete button of op[p].name is pressed, if the panel shows
\* one: del users[user], then save_users(users).
RemoveClick(p) ==
    /\ pc[p] = "body"
    /\ UNCHANGED rvars
    /\ op[p].kind = "remove"
    /\ IF can_delete(users[p], op[p].name)
       THEN /\ pc' = [pc EXCEPT ![p] = "save_open"]
            /\ users' = [users EXCEPT ![p] = DelItem(users[p], op[p].name)]
            /\ result' = result
       ELSE /\ pc' = [pc EXCEPT ![p] = "done"]
            /\ result' = [result EXCEPT ![p] = "NoButton"]
            /\ users' = users
    /\ UNCHANGED <<file, op, snap, calls, startFile, wrote, seen, lastDoc,
                   registered, removeUsed>>

\* save_users(users): open(USERS_FILE, 'w')
SaveOpen(p) ==
    /\ pc[p] = "save_open"
    /\ UNCHANGED rvars
    /\ file' = open_w(file)
    /\ pc' = [pc EXCEPT ![p] = "save_write"]
    /\ wrote' = [wrote EXCEPT ![p] = TRUE]
    /\ UNCHANGED <<op, users, snap, result, calls, startFile, seen, lastDoc,
                   registered, removeUsed>>

\* save_users(users): json.dump, close; then the caller's return.
SaveWrite(p) ==
    /\ pc[p] = "save_write"
    /\ UNCHANGED rvars
    /\ file' = json_dump(users[p])
    /\ lastDoc' = file'
    /\ pc' = [pc EXCEPT ![p] = "done"]
    /\ IF op[p].kind = "register"
       THEN /\ result' = [result EXCEPT ![p] = "Success"]
            /\ registered' = SetItem(registered, op[p].name, op[p].pw)
       ELSE /\ result' = [result EXCEPT ![p] = "Removed"]
            /\ registered' = registered
    /\ UNCHANGED <<op, users, snap, calls, startFile, wrote, seen, removeUsed>>

\* The caller is finished with the result; its locals are gone.
Return(p) ==
    /\ pc[p] = "done"
    /\ UNCHANGED rvars
    /\ pc' = [pc EXCEPT ![p] = "idle"]
    /\ op' = [op EXCEPT ![p] = NoOp]
    /\ users' = [users EXCEPT ![p] = NoUsers]
    /\ snap' = [snap EXCEPT ![p] = NoUsers]
    /\ result' = [result EXCEPT ![p] = "none"]
    /\ startFile' = [startFile EXCEPT ![p] = Absent]
    /\ wrote' = [wrote EXCEPT ![p] = FALSE]
    /\ seen' = [seen EXCEPT ![p] = "none"]
    /\ UNCHANGED <<file, calls, lastDoc, registered, removeUsed>>

Step(p) ==
    \/ Exists(p)
    \/ SeedOpen(p)
    \/ SeedWrite(p)
    \/ Read(p)
    \/ RegisterCheck(p)
    \/ LoginCheck(p)
    \/ ListUsers(p)
    \/ RemoveClick(p)
    \/ SaveOpen(p)
    \/ SaveWrite(p)
    \/ Return(p)

\* Callers interleave freely: nothing in the code orders them.
Next == \E p \in Procs : Step(p) \/ \E o \in Ops : Call(p, o)

Spec == Init /\ [][Next]_vars

\* One caller at a time: an operation is called only when no other is running.
Quiet == \A q \in Procs : pc[q] = "idle"

SeqNext == \E p \in Procs : Step(p) \/ \E o \in Ops : (Quiet /\ Call(p, o))

SeqSpec == Init /\ [][SeqNext]_vars

\* One burst of calls, one per caller (the threads of test_persistence.py),
\* which may all overlap. Callers are alike, so they are numbered in the order
\* of their calls.
BurstNext ==
    \E p \in Procs : Step(p) \/ \E o \in Ops : (p = calls + 1 /\ Call(p, o))

\* Every caller is a thread the interpreter keeps scheduling: a caller that can
\* take a step of its operation eventually takes one. Nothing makes a caller
\* start an operation.
FairSpec == Init /\ [][BurstNext]_vars /\ \A p \in Procs : WF_vars(Step(p))

\* ------------------------------------------------------------- results log

\* save_result: result = {...}; all_results = []. The record is identified by
\* the order of the calls (its timestamp).
SaveResultCall(p) ==
    /\ rpc[p] = "idle"
    /\ saves < MaxSaves
    /\ saves' = saves + 1
    /\ rec' = [rec EXCEPT ![p] = saves + 1]
    /\ all_results' = [all_results EXCEPT ![p] = <<>>]
    /\ rpc' = [rpc EXCEPT ![p] = "exists"]
    /\ UNCHANGED <<rfile, rlast>>
    /\ UNCHANGED cvars

\* save_result: if os.path.exists(RESULTS_FILE)
ResultsExists(p) ==
    /\ rpc[p] = "exists"
    /\ rpc' = [rpc EXCEPT ![p] = IF rfile.kind # "absent" THEN "read" ELSE "append"]
    /\ UNCHANGED <<rfile, rec, all_results, saves, rlast>>
    /\ UNCHANGED cvars

\* save_result: try: all_results = json.load(f) except: pass
ResultsRead(p) ==
    /\ rpc[p] = "read"
    /\ all_results' = [all_results EXCEPT
          ![p] = IF rfile.kind = "doc" THEN rfile.recs ELSE @]
    /\ rpc' = [rpc EXCEPT ![p] = "append"]
    /\ UNCHANGED <<rfile, rec, saves, rlast>>
    /\ UNCHANGED cvars

\* save_result: all_results.append(result)
ResultsAppend(p) ==
    /\ rpc[p] = "append"
    /\ all_results' = [all_results EXCEPT ![p] = Append(@, rec[p])]
    /\ rpc' = [rpc EXCEPT ![p] = "open"]
    /\ UNCHANGED <<rfile, rec, saves, rlast>>
    /\ UNCHANGED cvars

\* save_result: open(RESULTS_FILE, 'w')
ResultsOpen(p) ==
    /\ rpc[p] = "open"
    /\ rfile' = RTruncated
    /\ rpc' = [rpc EXCEPT ![p] = "dump"]
    /\ UNCHANGED <<rec, all_results, saves, rlast>>
    /\ UNCHANGED cvars

\* save_result: json.dump(all_results, f), close, return
ResultsDump(p) ==
    /\ rpc[p] = "dump"
    /\ rfile' = RDoc(all_results[p])
    /\ rlast' = all_results[p]
    /\ rpc' = [rpc EXCEPT ![p] = "idle"]
    /\ UNCHANGED <<rec, all_results, saves>>
    /\ UNCHANGED cvars

\* finish_test of each session calls save_result; sessions interleave freely.
ResultsNext ==
    \E p \in Procs :
       \/ SaveResultCall(p)
       \/ ResultsExists(p)
       \/ ResultsRead(p)
       \/ ResultsAppend(p)
       \/ ResultsOpen(p)
       \/ ResultsDump(p)

ResultsSpec == Init /\ [][ResultsNext]_vars

\* ------------------------------------------------------------- claims

\* Every caller has made exactly one call, a register_user, each called while
\* the store held a document with none of the callers' usernames in it (so the
\* calls overlap), and each has returned a result.
Returned(p) == pc[p] = "done" /\ result[p] \in {"Success", "AlreadyExists"}

ConcurrentFreshRegisters ==
    /\ calls = NumProcs
    /\ \A p \in Procs :
          /\ op[p].kind = "register"
          /\ Returned(p)
          /\ startFile[p].kind = "doc"
          /\ \A q \in Procs : op[q].name \notin DOMAIN startFile[p].users

Mutating(p) == op[p].kind \in {"register", "remove"}

\* C1: no lost writes. After concurrent register calls with pairwise distinct,
\* previously unregistered usernames have all returned, the persisted document
\* holds every one of the usernames and admin.
C1_NoLostWrites ==
    (/\ ConcurrentFreshRegisters
     /\ \A p, q \in Procs : p # q => op[p].name # op[q].name)
    => /\ file.kind = "doc"
       /\ "admin" \in DOMAIN file.users
       /\ \A p \in Procs : op[p].name \in DOMAIN file.users

\* C2: duplicate-name exclusion. Of concurrent register calls with one and the
\* same previously unregistered username, exactly one returns Success and the
\* others return AlreadyExists.
C2_OneSuccessPerName ==
    (/\ ConcurrentFreshRegisters
     /\ \A p, q \in Procs : op[p].name = op[q].name)
    => Cardinality({p \in Procs : result[p] = "Success"}) = 1

\* C3: mutual exclusion of mutators. At most one mutating operation is between
\* its read of the store and its persist, and a mutating operation about to
\* persist holds the snapshot of the last complete document of the store.
C3_MutatorsExclusive ==
    /\ Cardinality({p \in Procs :
           Mutating(p) /\ pc[p] \in {"body", "save_open", "save_write"}}) <= 1
    /\ \A p \in Procs :
          (Mutating(p) /\ pc[p] \in {"save_open", "save_write"})
          => lastDoc = Doc(snap[p])

\* C4: readers never see a partial write. Every read of the file by load_users
\* observes a complete document, never a truncated file.
C4_ReadsSeeWholeDocument == \A p \in Procs : seen[p] \in {"none", "doc"}

\* C5: verify correctness. With one caller at a time, a finished login returned
\* true exactly when its username is in the stored document with the hash of
\* its password.
C5_VerifyCorrect ==
    \A p \in Procs :
       (pc[p] = "done" /\ op[p].kind = "login")
       => /\ file.kind = "doc"
          /\ result[p] \in {"True", "False"}
          /\ result[p] = "True" <=>
                /\ op[p].name \in DOMAIN file.users
                /\ file.users[op[p].name] = hash_password(op[p].pw)

\* A login of a registered user succeeded after registers and a remove.
C5_Witness ==
    \E p \in Procs :
       /\ pc[p] = "done" /\ op[p].kind = "login" /\ result[p] = "True"
       /\ op[p].name = "alice" /\ removeUsed

\* C6: idempotent bootstrap. The seeding write of load_users never resets a
\* document that already exists: every entry the store held before the write
\* is still stored, with its hash, after it.
C6_SeedKeepsExistingDocument ==
    [][\A p \in Procs :
          (pc[p] = "seed_write" /\ pc'[p] = "body")
          => \A n \in DOMAIN lastDoc.users :
                /\ n \in DOMAIN file'.users
                /\ file'.users[n] = lastDoc.users[n]]_vars

\* C7: admin invariant. Once the store has been initialized, the persisted
\* credential set holds the key admin in every state.
C7_AdminAlwaysStored ==
    lastDoc.kind = "doc" => (file.kind = "doc" /\ "admin" \in DOMAIN file.users)

\* C8: a rejected register changes nothing. With one caller at a time, a
\* register of a username that is a key of the stored document returns
\* AlreadyExists, leaves the file as it was and never opens it for writing.
C8_RejectedRegisterNoChange ==
    \A p \in Procs :
       (/\ pc[p] = "done" /\ op[p].kind = "register"
        /\ startFile[p].kind = "doc"
        /\ op[p].name \in DOMAIN startFile[p].users)
       => /\ result[p] = "AlreadyExists"
          /\ file = startFile[p]
          /\ ~wrote[p]

\* A register of a stored username with another password was rejected.
C8_Witness ==
    \E p \in Procs :
       /\ pc[p] = "done" /\ op[p].kind = "register" /\ op[p].name = "alice"
       /\ startFile[p].kind = "doc"
       /\ "alice" \in DOMAIN startFile[p].users
       /\ startFile[p].users["alice"] # hash_password(op[p].pw)
       /\ result[p] = "AlreadyExists"

\* C9: uniqueness and completeness. With one caller at a time and no remove,
\* once an operation has finished the stored keys are admin plus the usernames
\* whose register returned Success, each with the hash of the password of its
\* successful call.
C9_KeysAreSuccessfulRegisters ==
    (/\ ~removeUsed
     /\ calls > 0
     /\ \A p \in Procs : pc[p] \in {"idle", "done"})
    => /\ file.kind = "doc"
       /\ DOMAIN file.users = {"admin"} \cup DOMAIN registered
       /\ \A n \in DOMAIN registered :
             file.users[n] = hash_password(registered[n])

\* Two registers succeeded and a third was rejected, with no remove.
C9_Witness ==
    /\ ~removeUsed
    /\ \A p \in Procs : pc[p] \in {"idle", "done"}
    /\ DOMAIN registered = {"alice", "bob"}
    /\ registered["alice"] # registered["bob"]
    /\ \E p \in Procs : pc[p] = "done" /\ result[p] = "AlreadyExists"

\* C10: remove affects only its target. The document a remove persists is the
\* last complete document of the store without the removed username: every
\* other entry is kept with its hash.
C10_RemoveKeepsOthers ==
    [][\A p \in Procs :
          (/\ pc[p] = "save_write" /\ pc'[p] = "done"
           /\ op[p].kind = "remove")
          => file' = Doc(DelItem(lastDoc.users, op[p].name))]_vars

ReadOnly(p) == op[p].kind \in {"login", "list"}

\* C11 as stated: read-only operations do not write. A finished login or user
\* list never opened the file for writing and left it as it was at the call,
\* whatever the state of the file at the call, absent included.
C11_ReadOnlyNeverWrites ==
    \A p \in Procs :
       ReadOnly(p) => /\ ~wrote[p]
                      /\ pc[p] = "done" => file = startFile[p]

\* C11 as amended: a login or user list called while the backing file exists
\* never opens it for writing and leaves it as it was at the call.
C11_ReadOnlyKeepsExistingStore ==
    \A p \in Procs :
       (ReadOnly(p) /\ startFile[p].kind # "absent")
       => /\ ~wrote[p]
          /\ pc[p] = "done" => file = startFile[p]

\* A login of a registered user finished on an existing store.
C11_Witness ==
    \E p \in Procs :
       /\ pc[p] = "done" /\ op[p].kind = "login" /\ result[p] = "True"
       /\ startFile[p].kind = "doc"
       /\ "bob" \in DOMAIN startFile[p].users

\* C12: corruption is reported, not reset. An operation whose load_users found
\* the file present but unparseable ends with a StorageError result returned
\* to its caller, and has not written the file. (In the model "Raised" is the
\* exception of json.load leaving the operation: no code catches it.)
C12_CorruptionReturnsStorageError ==
    \A p \in Procs :
       (pc[p] = "done" /\ seen[p] = "truncated")
       => /\ result[p] = "StorageError"
          /\ ~wrote[p]

\* C13: persist before return. From the return of a successful register on,
\* and as long as no remove is performed, every complete document of the store
\* holds the username with the hash of its password (so verify returns true).
C13_SuccessStaysVerifiable ==
    (~removeUsed /\ file.kind = "doc")
    => \A n \in DOMAIN registered :
          login_matches(file.users, n, registered[n])

InProgress(p) == pc[p] \notin {"idle", "done"}

SerialResult(users_, o) ==
    IF o.kind = "register"
    THEN IF username_taken(users_, o.name) THEN "AlreadyExists" ELSE "Success"
    ELSE IF can_delete(users_, o.name) THEN "Removed" ELSE "NoButton"

SerialUsers(users_, o) ==
    IF o.kind = "register"
    THEN IF username_taken(users_, o.name)
         THEN users_
         ELSE SetItem(users_, o.name, new_entry(o.pw))
    ELSE IF can_delete(users_, o.name) THEN DelItem(users_, o.name) ELSE users_

\* The orders in which the callers' operations can be run one at a time.
Orders == {f \in [1..NumProcs -> Procs] : \A p \in Procs : \E i \in 1..NumProcs : f[i] = p}

RECURSIVE SerialRun(_, _, _)
\* Running the callers' operations alone, in this order from position i on the
\* document users_, gives the results the callers got and the file as it is.
SerialRun(order, i, users_) ==
    IF i > NumProcs
    THEN file = Doc(users_)
    ELSE /\ result[order[i]] = SerialResult(users_, op[order[i]])
         /\ SerialRun(order, i + 1, SerialUsers(users_, op[order[i]]))

\* C15: serializability of mutators. When every caller has made one call, a
\* register or a remove, on the initialized store, and all have returned, the
\* file and the results are those of running the operations one at a time in
\* some order.
C15_MutatorsSerializable ==
    (/\ calls = NumProcs
     /\ \A p \in Procs :
           /\ Mutating(p)
           /\ pc[p] = "done" /\ result[p] # "Raised"
           /\ startFile[p].kind = "doc")
    => \E order \in Orders : SerialRun(order, 1, default_users)

\* C16: no hash overwrite. The document a register persists keeps, for every
\* username the store already held, the hash that was stored for it.
C16_RegisterKeepsStoredHashes ==
    [][\A p \in Procs :
          (/\ pc[p] = "save_write" /\ pc'[p] = "done"
           /\ op[p].kind = "register")
          => \A n \in DOMAIN lastDoc.users \cap DOMAIN file'.users :
                file'.users[n] = lastDoc.users[n]]_vars

\* C17: monotonic growth without removal. As long as no remove has been
\* called, every username of a complete document of the store is in every
\* later complete document.
C17_UsernamesNeverShrink ==
    [][~removeUsed' => DOMAIN lastDoc.users \subseteq DOMAIN lastDoc'.users]_vars

\* C18: the results log is append-only. The list a save_result call writes is
\* the list the results file last held, in the same order, followed by the one
\* new record.
C18_ResultsAppendOnly ==
    [][\A p \in Procs :
          (rpc[p] = "dump" /\ rpc'[p] = "idle")
          => rfile' = RDoc(Append(rlast, rec[p]))]_vars

====
